---- MODULE Spec2Model ----
(***************************************************************************)
(* A model of convert_to_RTTM/convert.py: the Annotation container, its    *)
(* constructors from_records / from_rttm / from_audacity and its writers   *)
(* to_rttm / to_audacity / write_audacity.                                 *)
(*                                                                         *)
(* Text is a sequence of one-character strings, so that splitting,         *)
(* stripping, number parsing and number formatting are computed character  *)
(* by character as Python computes them.  A float is modelled by the       *)
(* integer number of 10^-Precision seconds it stands for: every number the *)
(* inputs below carry has at most Precision fractional digits and a small  *)
(* magnitude, where Python's binary floats parse, add, subtract and format *)
(* to Precision decimals without error.  Negative zero, exponents, inf and *)
(* nan are outside the modelled inputs.                                    *)
(***************************************************************************)
EXTENDS Integers, Sequences, FiniteSets, TLC

VARIABLES
    kind,           \* which constructor the caller uses: "records", "rttm", "audacity"
    source,         \* its argument: the records, the lines of rttm_file, the lines of the marker file
    uri,            \* the uri argument (None when not given)
    pc,             \* the call in progress
    line_no,        \* position of the loop of the call in progress
    segment_list,   \* the local list a parsing constructor builds
    annotation,     \* the constructed Annotation (None before, and for ever after a raise)
    raised,         \* the exception that ended the constructor, "none" otherwise
    rttm_sink,      \* the strings to_rttm has written to its file, one per write call
    audacity_sink,  \* the strings write_audacity has written to its file
    audacity_text,  \* the value to_audacity returned (None before the call)
    called          \* the writers that have returned

vars == <<kind, source, uri, pc, line_no, segment_list, annotation, raised,
          rttm_sink, audacity_sink, audacity_text, called>>

----------------------------------------------------------------------------
(* Bounds and program constants *)

\* the longest input (lines of a file, records of a list) the model explores
MaxLines == 2

\* digits after the point in every written number: the ".3f" of the format strings
Precision == 3

\* the track from_audacity gives every record
AudacityTrack == 1

Scale == 10 ^ Precision

----------------------------------------------------------------------------
(* Python's optional values *)

None == [set |-> FALSE, val |-> <<>>]

Some(x) == [set |-> TRUE, val |-> x]

----------------------------------------------------------------------------
(* Text: str methods and number conversions *)

DigitChars == <<"0", "1", "2", "3", "4", "5", "6", "7", "8", "9">>

Digit == {DigitChars[n] : n \in 1..10}

DigitVal(c) == (CHOOSE n \in 1..10 : DigitChars[n] = c) - 1

\* the characters str.rstrip(), str.strip() and the number parsers treat as blank
Whitespace == {" ", "\t", "\n", "\r"}

RECURSIVE Concat(_)
\* "".join(parts)
Concat(parts) ==
    IF parts = <<>> THEN <<>> ELSE Head(parts) \o Concat(Tail(parts))

RECURSIVE RStrip(_)
\* s.rstrip(): s without its trailing whitespace
RStrip(s) ==
    IF s # <<>> /\ s[Len(s)] \in Whitespace
    THEN RStrip(SubSeq(s, 1, Len(s) - 1))
    ELSE s

RECURSIVE LStrip(_)
LStrip(s) ==
    IF s # <<>> /\ s[1] \in Whitespace THEN LStrip(Tail(s)) ELSE s

Strip(s) == LStrip(RStrip(s))

RECURSIVE SplitFrom(_, _, _, _, _)
SplitFrom(s, sep, i, cur, acc) ==
    IF i > Len(s) THEN Append(acc, cur)
    ELSE IF s[i] = sep THEN SplitFrom(s, sep, i + 1, <<>>, Append(acc, cur))
    ELSE SplitFrom(s, sep, i + 1, Append(cur, s[i]), acc)

\* s.split(sep) for a one-character sep: every occurrence of sep ends a field,
\* so two adjacent separators enclose an empty field and "" gives [""]
Split(s, sep) == SplitFrom(s, sep, 1, <<>>, <<>>)

IsDigits(s) == \A i \in 1..Len(s) : s[i] \in Digit

RECURSIVE DigitsVal(_)
DigitsVal(s) ==
    IF s = <<>> THEN 0
    ELSE 10 * DigitsVal(SubSeq(s, 1, Len(s) - 1)) + DigitVal(s[Len(s)])

\* float(tok): surrounding whitespace is dropped, then an optional sign and a
\* decimal literal with at least one digit; anything else raises ValueError
\* (ok = FALSE).  The value is in units of 10^-Precision.
PyFloat(tok) ==
    LET t      == Strip(tok)
        signed == t # <<>> /\ t[1] \in {"+", "-"}
        neg    == t # <<>> /\ t[1] = "-"
        body   == IF signed THEN Tail(t) ELSE t
        parts  == Split(body, ".")
        ip     == parts[1]
        fp     == IF Len(parts) = 2 THEN parts[2] ELSE <<>>
        ok     == /\ Len(parts) <= 2
                  /\ IsDigits(ip) /\ IsDigits(fp)
                  /\ Len(ip) + Len(fp) > 0
        mag    == DigitsVal(ip) * Scale + DigitsVal(fp) * 10 ^ (Precision - Len(fp))
    IN  IF ok THEN [ok |-> TRUE, v |-> IF neg THEN 0 - mag ELSE mag]
        ELSE [ok |-> FALSE, v |-> 0]

\* int(tok): surrounding whitespace is dropped, then an optional sign and digits
PyInt(tok) ==
    LET t      == Strip(tok)
        signed == t # <<>> /\ t[1] \in {"+", "-"}
        neg    == t # <<>> /\ t[1] = "-"
        body   == IF signed THEN Tail(t) ELSE t
        ok     == body # <<>> /\ IsDigits(body)
    IN  IF ok THEN [ok |-> TRUE, v |-> IF neg THEN 0 - DigitsVal(body) ELSE DigitsVal(body)]
        ELSE [ok |-> FALSE, v |-> 0]

RECURSIVE NatStr(_)
NatStr(n) ==
    IF n < 10 THEN <<DigitChars[n + 1]>>
    ELSE Append(NatStr(n \div 10), DigitChars[(n % 10) + 1])

RECURSIVE ZeroPad(_, _)
ZeroPad(s, width) == IF Len(s) >= width THEN s ELSE ZeroPad(<<"0">> \o s, width)

\* f"{v:.3f}": sign, integer part, point, exactly Precision digits
Fmt3(v) ==
    LET a == IF v < 0 THEN 0 - v ELSE v
    IN  (IF v < 0 THEN <<"-">> ELSE <<>>)
        \o NatStr(a \div Scale) \o <<".">> \o ZeroPad(NatStr(a % Scale), Precision)

\* f"{self.uri}": the text of the uri, "None" when it is None
FmtUri(u) == IF u.set THEN u.val ELSE <<"N", "o", "n", "e">>

----------------------------------------------------------------------------
(* pyannote.core.Segment, as the program uses it: start, end and the        *)
(* read-only property duration.  The library returns end - start for a      *)
(* non-empty segment and 0.0 for an empty one, a segment being empty when   *)
(* end - start is not above 1e-6; with times in units of 10^-Precision that *)
(* is end - start <= 0.                                                     *)

Segment(start, end) == [start |-> start, end |-> end]

SegmentDuration(segment) ==
    IF segment.end - segment.start > 0 THEN segment.end - segment.start ELSE 0

\* one element of segment_list: the tuple (segment, track, label)
Record(segment, track, label) == [segment |-> segment, track |-> track, label |-> label]

----------------------------------------------------------------------------
(* Annotation *)

\* Annotation.__init__
Annotation(list, u, m) == [segment_list |-> list, uri |-> u, modality |-> m]

\* Annotation.from_records
from_records(list, u, m) == Annotation(list, u, m)

\* a bug to test the claims against: the list grows at its head
AppendRecord_AtHead(list, rec) == <<rec>> \o list

\* segment_list.append(...)
AppendRecord(list, rec) == Append(list, rec)

\* a bug to test the claims against: the duration token read as the end time
RttmSegment_DurationAsEnd(line) == Segment(PyFloat(line[4]).v, PyFloat(line[5]).v)

\* Segment(start=float(line[3]), end=float(line[3]) + float(line[4])), line being
\* the list line.rstrip().split(" ") (Python counts from 0, the model from 1)
RttmSegment(line) ==
    Segment(PyFloat(line[4]).v, PyFloat(line[4]).v + PyFloat(line[5]).v)

\* the exception the body of from_rttm's loop raises on the token list line, in
\* the order Python evaluates the tuple; "none" when it raises nothing
RttmLineError(line) ==
    IF Len(line) < 4 THEN "IndexError"
    ELSE IF ~PyFloat(line[4]).ok THEN "ValueError"
    ELSE IF Len(line) < 5 THEN "IndexError"
    ELSE IF ~PyFloat(line[5]).ok THEN "ValueError"
    ELSE IF ~PyInt(line[3]).ok THEN "ValueError"
    ELSE IF Len(line) < 8 THEN "IndexError"
    ELSE "none"

\* the tuple from_rttm appends for the token list line
RttmRecord(line) == Record(RttmSegment(line), PyInt(line[3]).v, line[8])

\* a bug to test the claims against: start and end exchanged
AudacitySegment_Swapped(start, end) == Segment(PyFloat(end).v, PyFloat(start).v)

\* Segment(start=float(start), end=float(end))
AudacitySegment(start, end) == Segment(PyFloat(start).v, PyFloat(end).v)

\* the exception the body of from_audacity's loop raises on the field list
\* fields = line.rstrip().split("\t"): the unpacking into start, end, label
\* needs exactly three fields, then the two float() calls
AudacityLineError(fields) ==
    IF Len(fields) # 3 THEN "ValueError"
    ELSE IF ~PyFloat(fields[1]).ok THEN "ValueError"
    ELSE IF ~PyFloat(fields[2]).ok THEN "ValueError"
    ELSE "none"

\* the tuple from_audacity appends for the field list fields
AudacityRecord(fields) ==
    Record(AudacitySegment(fields[1], fields[2]), AudacityTrack, fields[3])

\* the line _iter_audacity yields for one record
AudacityOutLine(rec) ==
    Fmt3(rec.segment.start) \o <<"\t">> \o Fmt3(rec.segment.end) \o <<"\t">>
        \o rec.label \o <<"\n">>

\* Annotation._iter_audacity: the lines it yields, in order
iter_audacity(a) ==
    [k \in 1..Len(a.segment_list) |-> AudacityOutLine(a.segment_list[k])]

RECURSIVE JoinLines(_)
\* a bug to test the claims against: "\n".join over lines that already end in "\n"
JoinLines(parts) ==
    IF parts = <<>> THEN <<>>
    ELSE IF Len(parts) = 1 THEN parts[1]
    ELSE Head(parts) \o <<"\n">> \o JoinLines(Tail(parts))

ToAudacityText_NewlineJoin(a) == JoinLines(iter_audacity(a))

\* the string Annotation.to_audacity returns
ToAudacityText(a) == Concat(iter_audacity(a))

\* a bug to test the claims against: the record's track written as the channel
RttmOutLine_TrackAsChannel(rec, u) ==
    <<"S", "P", "E", "A", "K", "E", "R", " ">> \o FmtUri(u) \o <<" ">> \o NatStr(rec.track) \o <<" ">>
        \o Fmt3(rec.segment.start) \o <<" ">>
        \o Fmt3(SegmentDuration(rec.segment)) \o <<" ", "<", "N", "A", ">", " ", "<", "N", "A", ">", " ">> \o rec.label \o <<" ", "<", "N", "A", ">", "\n">>

\* a bug to test the claims against: the end time written as the duration
RttmOutLine_EndAsDuration(rec, u) ==
    <<"S", "P", "E", "A", "K", "E", "R", " ">> \o FmtUri(u) \o <<" ", "1", " ">> \o Fmt3(rec.segment.start) \o <<" ">>
        \o Fmt3(rec.segment.end) \o <<" ", "<", "N", "A", ">", " ", "<", "N", "A", ">", " ">> \o rec.label \o <<" ", "<", "N", "A", ">", "\n">>

\* the string to_rttm writes for one record:
\* f"SPEAKER {self.uri} 1 {segment.start:.3f} {segment.duration:.3f} <NA> <NA> {label} <NA>\n"
RttmOutLine(rec, u) ==
    <<"S", "P", "E", "A", "K", "E", "R", " ">> \o FmtUri(u) \o <<" ", "1", " ">> \o Fmt3(rec.segment.start) \o <<" ">>
        \o Fmt3(SegmentDuration(rec.segment)) \o <<" ", "<", "N", "A", ">", " ", "<", "N", "A", ">", " ">> \o rec.label \o <<" ", "<", "N", "A", ">", "\n">>

----------------------------------------------------------------------------
(* The inputs the model explores *)

\* SPEAKER file1 1 10.000 2.500 <NA> <NA> spk1 <NA>
\* RttmScenario is the text "SPEAKER file1 1 10.000 2.500 <NA> <NA> spk1 <NA>\n"
RttmScenario == <<"S", "P", "E", "A", "K", "E", "R", " ", "f", "i", "l", "e", "1", " ", "1", " ", "1", "0", ".", "0", "0", "0", " ", "2", ".", "5", "0", "0", " ", "<", "N", "A", ">", " ", "<", "N", "A", ">", " ", "s", "p", "k", "1", " ", "<", "N", "A", ">", "\n">>

\* a zero-duration segment
\* RttmZeroDuration is the text "SPEAKER file1 1 0.000 0.000 <NA> <NA> spk2 <NA>\n"
RttmZeroDuration == <<"S", "P", "E", "A", "K", "E", "R", " ", "f", "i", "l", "e", "1", " ", "1", " ", "0", ".", "0", "0", "0", " ", "0", ".", "0", "0", "0", " ", "<", "N", "A", ">", " ", "<", "N", "A", ">", " ", "s", "p", "k", "2", " ", "<", "N", "A", ">", "\n">>

\* another uri, track 2, a negative start
\* RttmTrackTwo is the text "SPEAKER f2 2 -1.000 0.500 <NA> <NA> spk1 <NA>\n"
RttmTrackTwo == <<"S", "P", "E", "A", "K", "E", "R", " ", "f", "2", " ", "2", " ", "-", "1", ".", "0", "0", "0", " ", "0", ".", "5", "0", "0", " ", "<", "N", "A", ">", " ", "<", "N", "A", ">", " ", "s", "p", "k", "1", " ", "<", "N", "A", ">", "\n">>

\* a negative duration token
\* RttmNegativeDuration is the text "SPEAKER file1 1 10.000 -2.500 <NA> <NA> spk1 <NA>\n"
RttmNegativeDuration == <<"S", "P", "E", "A", "K", "E", "R", " ", "f", "i", "l", "e", "1", " ", "1", " ", "1", "0", ".", "0", "0", "0", " ", "-", "2", ".", "5", "0", "0", " ", "<", "N", "A", ">", " ", "<", "N", "A", ">", " ", "s", "p", "k", "1", " ", "<", "N", "A", ">", "\n">>

\* numbers not written to three decimals
\* RttmShortNumbers is the text "SPEAKER file1 1 1.5 2 <NA> <NA> spk1 <NA>\n"
RttmShortNumbers == <<"S", "P", "E", "A", "K", "E", "R", " ", "f", "i", "l", "e", "1", " ", "1", " ", "1", ".", "5", " ", "2", " ", "<", "N", "A", ">", " ", "<", "N", "A", ">", " ", "s", "p", "k", "1", " ", "<", "N", "A", ">", "\n">>

\* two spaces before the label
\* RttmTwoSpaces is the text "SPEAKER file1 1 1.000 0.500 <NA> <NA>  spk1 <NA>\n"
RttmTwoSpaces == <<"S", "P", "E", "A", "K", "E", "R", " ", "f", "i", "l", "e", "1", " ", "1", " ", "1", ".", "0", "0", "0", " ", "0", ".", "5", "0", "0", " ", "<", "N", "A", ">", " ", "<", "N", "A", ">", " ", " ", "s", "p", "k", "1", " ", "<", "N", "A", ">", "\n">>

\* tokens separated by tabs
\* RttmTabs is the text "SPEAKER\tfile1\t1\t1.000\t0.500\t<NA>\t<NA>\tspk1\t<NA>\n"
RttmTabs == <<"S", "P", "E", "A", "K", "E", "R", "\t", "f", "i", "l", "e", "1", "\t", "1", "\t", "1", ".", "0", "0", "0", "\t", "0", ".", "5", "0", "0", "\t", "<", "N", "A", ">", "\t", "<", "N", "A", ">", "\t", "s", "p", "k", "1", "\t", "<", "N", "A", ">", "\n">>

\* seven tokens, two spaces after the first
\* RttmSevenTwoSpaces is the text "SPEAKER  1 1.000 0.500 <NA> <NA> spk1\n"
RttmSevenTwoSpaces == <<"S", "P", "E", "A", "K", "E", "R", " ", " ", "1", " ", "1", ".", "0", "0", "0", " ", "0", ".", "5", "0", "0", " ", "<", "N", "A", ">", " ", "<", "N", "A", ">", " ", "s", "p", "k", "1", "\n">>

\* seven tokens
\* RttmSeven is the text "SPEAKER file1 1 1.000 0.500 <NA> <NA>\n"
RttmSeven == <<"S", "P", "E", "A", "K", "E", "R", " ", "f", "i", "l", "e", "1", " ", "1", " ", "1", ".", "0", "0", "0", " ", "0", ".", "5", "0", "0", " ", "<", "N", "A", ">", " ", "<", "N", "A", ">", "\n">>

\* a track that is no integer
\* RttmBadTrack is the text "SPEAKER file1 x 1.000 0.500 <NA> <NA> spk1 <NA>\n"
RttmBadTrack == <<"S", "P", "E", "A", "K", "E", "R", " ", "f", "i", "l", "e", "1", " ", "x", " ", "1", ".", "0", "0", "0", " ", "0", ".", "5", "0", "0", " ", "<", "N", "A", ">", " ", "<", "N", "A", ">", " ", "s", "p", "k", "1", " ", "<", "N", "A", ">", "\n">>

\* a start that is no number
\* RttmBadStart is the text "SPEAKER file1 1 abc 0.500 <NA> <NA> spk1 <NA>\n"
RttmBadStart == <<"S", "P", "E", "A", "K", "E", "R", " ", "f", "i", "l", "e", "1", " ", "1", " ", "a", "b", "c", " ", "0", ".", "5", "0", "0", " ", "<", "N", "A", ">", " ", "<", "N", "A", ">", " ", "s", "p", "k", "1", " ", "<", "N", "A", ">", "\n">>

RttmLines ==
    {RttmScenario, RttmZeroDuration, RttmTrackTwo, RttmNegativeDuration,
     RttmShortNumbers, RttmTwoSpaces, RttmTabs, RttmSevenTwoSpaces, RttmSeven,
     RttmBadTrack, RttmBadStart}

\* MarkerScenario is the text "1.000\t2.000\tspkA\n"
MarkerScenario == <<"1", ".", "0", "0", "0", "\t", "2", ".", "0", "0", "0", "\t", "s", "p", "k", "A", "\n">>

\* start = end
\* MarkerZeroDuration is the text "2.000\t2.000\tspkB\n"
MarkerZeroDuration == <<"2", ".", "0", "0", "0", "\t", "2", ".", "0", "0", "0", "\t", "s", "p", "k", "B", "\n">>

\* end before start
\* MarkerEndBeforeStart is the text "2.000\t1.000\tx\n"
MarkerEndBeforeStart == <<"2", ".", "0", "0", "0", "\t", "1", ".", "0", "0", "0", "\t", "x", "\n">>

\* a label ending in a space
\* MarkerLabelTrailingSpace is the text "1.000\t2.000\tspkA \n"
MarkerLabelTrailingSpace == <<"1", ".", "0", "0", "0", "\t", "2", ".", "0", "0", "0", "\t", "s", "p", "k", "A", " ", "\n">>

\* an empty label (a region the editor left unnamed)
\* MarkerEmptyLabel is the text "1.000\t2.000\t\n"
MarkerEmptyLabel == <<"1", ".", "0", "0", "0", "\t", "2", ".", "0", "0", "0", "\t", "\n">>

\* four fields, the last one empty
\* MarkerFourthEmpty is the text "1.000\t2.000\tspkA\t\n"
MarkerFourthEmpty == <<"1", ".", "0", "0", "0", "\t", "2", ".", "0", "0", "0", "\t", "s", "p", "k", "A", "\t", "\n">>

\* two fields
\* MarkerTwoFields is the text "1.000\t2.000\n"
MarkerTwoFields == <<"1", ".", "0", "0", "0", "\t", "2", ".", "0", "0", "0", "\n">>

\* four fields
\* MarkerFourFields is the text "1.000\t2.000\ta\tb\n"
MarkerFourFields == <<"1", ".", "0", "0", "0", "\t", "2", ".", "0", "0", "0", "\t", "a", "\t", "b", "\n">>

\* a start that is no number
\* MarkerBadStart is the text "x\t2.000\ta\n"
MarkerBadStart == <<"x", "\t", "2", ".", "0", "0", "0", "\t", "a", "\n">>

\* numbers not written to three decimals, a label with a space inside
\* MarkerShortNumbers is the text "1.5\t2\ta b\n"
MarkerShortNumbers == <<"1", ".", "5", "\t", "2", "\t", "a", " ", "b", "\n">>

MarkerLines ==
    {MarkerScenario, MarkerZeroDuration, MarkerEndBeforeStart,
     MarkerLabelTrailingSpace, MarkerEmptyLabel, MarkerFourthEmpty,
     MarkerTwoFields, MarkerFourFields, MarkerBadStart, MarkerShortNumbers}

\* records a caller hands to from_records, which takes any
CallerRecords ==
    {Record(Segment(10000, 12500), 1, <<"s", "p", "k", "1">>),
     Record(Segment(1000, 1000), 2, <<"s", "p", "k", "2">>),
     Record(Segment(2000, 1000), 1, <<"x">>),
     Record(Segment(0, 1500), 3, <<"a", " ", "b">>)}

UriArgs == {None, Some(<<"f", "i", "l", "e", "1">>)}

SeqsUpTo(S, n) == UNION {[1..m -> S] : m \in 0..n}

----------------------------------------------------------------------------
(* The state machine: one caller, one Annotation, calls one after another *)

Init ==
    /\ kind \in {"records", "rttm", "audacity"}
    /\ source \in CASE kind = "records"  -> SeqsUpTo(CallerRecords, MaxLines)
                    [] kind = "rttm"     -> SeqsUpTo(RttmLines, MaxLines)
                    [] kind = "audacity" -> SeqsUpTo(MarkerLines, MaxLines)
    /\ uri \in UriArgs
    /\ pc = "start"
    /\ line_no = 0
    /\ segment_list = <<>>
    /\ annotation = None
    /\ raised = "none"
    /\ rttm_sink = <<>>
    /\ audacity_sink = <<>>
    /\ audacity_text = None
    /\ called = {}

\* Annotation.from_records(source, uri) called by the caller
CallFromRecords ==
    /\ pc = "start" /\ kind = "records"
    /\ annotation' = Some(from_records(source, uri, None))
    /\ pc' = "ready"
    /\ UNCHANGED <<kind, source, uri, line_no, segment_list, raised,
                   rttm_sink, audacity_sink, audacity_text, called>>

\* Annotation.from_rttm(source, uri): segment_list = []
from_rttm_enter ==
    /\ pc = "start" /\ kind = "rttm"
    /\ segment_list' = <<>>
    /\ line_no' = 1
    /\ pc' = "from_rttm"
    /\ UNCHANGED <<kind, source, uri, annotation, raised,
                   rttm_sink, audacity_sink, audacity_text, called>>

\* one turn of "for line in rttm_file": the record is appended, or the
\* exception leaves from_rttm and nothing is returned
from_rttm_line ==
    /\ pc = "from_rttm" /\ line_no <= Len(source)
    /\ LET line == Split(RStrip(source[line_no]), " ")
       IN  IF RttmLineError(line) = "none"
           THEN /\ segment_list' = AppendRecord(segment_list, RttmRecord(line))
                /\ line_no' = line_no + 1
                /\ UNCHANGED <<pc, raised>>
           ELSE /\ raised' = RttmLineError(line)
                /\ pc' = "raised"
                /\ UNCHANGED <<segment_list, line_no>>
    /\ UNCHANGED <<kind, source, uri, annotation,
                   rttm_sink, audacity_sink, audacity_text, called>>

\* return cls.from_records(segment_list, uri, modality)
from_rttm_return ==
    /\ pc = "from_rttm" /\ line_no > Len(source)
    /\ annotation' = Some(from_records(segment_list, uri, None))
    /\ pc' = "ready"
    /\ UNCHANGED <<kind, source, uri, line_no, segment_list, raised,
                   rttm_sink, audacity_sink, audacity_text, called>>

\* Annotation.from_audacity(path, uri): segment_list = [], the file is opened
from_audacity_enter ==
    /\ pc = "start" /\ kind = "audacity"
    /\ segment_list' = <<>>
    /\ line_no' = 1
    /\ pc' = "from_audacity"
    /\ UNCHANGED <<kind, source, uri, annotation, raised,
                   rttm_sink, audacity_sink, audacity_text, called>>

\* one turn of "for line in file"
from_audacity_line ==
    /\ pc = "from_audacity" /\ line_no <= Len(source)
    /\ LET fields == Split(RStrip(source[line_no]), "\t")
       IN  IF AudacityLineError(fields) = "none"
           THEN /\ segment_list' = AppendRecord(segment_list, AudacityRecord(fields))
                /\ line_no' = line_no + 1
                /\ UNCHANGED <<pc, raised>>
           ELSE /\ raised' = AudacityLineError(fields)
                /\ pc' = "raised"
                /\ UNCHANGED <<segment_list, line_no>>
    /\ UNCHANGED <<kind, source, uri, annotation,
                   rttm_sink, audacity_sink, audacity_text, called>>

\* return cls.from_records(segment_list, uri, modality)
from_audacity_return ==
    /\ pc = "from_audacity" /\ line_no > Len(source)
    /\ annotation' = Some(from_records(segment_list, uri, None))
    /\ pc' = "ready"
    /\ UNCHANGED <<kind, source, uri, line_no, segment_list, raised,
                   rttm_sink, audacity_sink, audacity_text, called>>

\* annotation.to_audacity(): the joined lines are returned
to_audacity ==
    /\ pc = "ready" /\ "to_audacity" \notin called
    /\ audacity_text' = Some(ToAudacityText(annotation.val))
    /\ called' = called \cup {"to_audacity"}
    /\ UNCHANGED <<kind, source, uri, pc, line_no, segment_list, annotation,
                   raised, rttm_sink, audacity_sink>>

\* annotation.write_audacity(file) with an empty file
write_audacity_enter ==
    /\ pc = "ready" /\ "write_audacity" \notin called
    /\ line_no' = 1
    /\ pc' = "write_audacity"
    /\ UNCHANGED <<kind, source, uri, segment_list, annotation, raised,
                   rttm_sink, audacity_sink, audacity_text, called>>

\* one turn of "for line in self._iter_audacity(): file.write(line)"
write_audacity_line ==
    /\ pc = "write_audacity" /\ line_no <= Len(annotation.val.segment_list)
    /\ audacity_sink' = Append(audacity_sink, iter_audacity(annotation.val)[line_no])
    /\ line_no' = line_no + 1
    /\ UNCHANGED <<kind, source, uri, pc, segment_list, annotation, raised,
                   rttm_sink, audacity_text, called>>

write_audacity_return ==
    /\ pc = "write_audacity" /\ line_no > Len(annotation.val.segment_list)
    /\ pc' = "ready"
    /\ called' = called \cup {"write_audacity"}
    /\ UNCHANGED <<kind, source, uri, line_no, segment_list, annotation, raised,
                   rttm_sink, audacity_sink, audacity_text>>

\* annotation.to_rttm(file) with an empty file
to_rttm_enter ==
    /\ pc = "ready" /\ "to_rttm" \notin called
    /\ line_no' = 1
    /\ pc' = "to_rttm"
    /\ UNCHANGED <<kind, source, uri, segment_list, annotation, raised,
                   rttm_sink, audacity_sink, audacity_text, called>>

\* one turn of "for segment, _, label in self.segment_list: file.write(...)"
to_rttm_line ==
    /\ pc = "to_rttm" /\ line_no <= Len(annotation.val.segment_list)
    /\ rttm_sink' = Append(rttm_sink,
                           RttmOutLine(annotation.val.segment_list[line_no],
                                       annotation.val.uri))
    /\ line_no' = line_no + 1
    /\ UNCHANGED <<kind, source, uri, pc, segment_list, annotation, raised,
                   audacity_sink, audacity_text, called>>

to_rttm_return ==
    /\ pc = "to_rttm" /\ line_no > Len(annotation.val.segment_list)
    /\ pc' = "ready"
    /\ called' = called \cup {"to_rttm"}
    /\ UNCHANGED <<kind, source, uri, line_no, segment_list, annotation, raised,
                   rttm_sink, audacity_sink, audacity_text>>

Next ==
    \/ CallFromRecords
    \/ from_rttm_enter
    \/ from_rttm_line
    \/ from_rttm_return
    \/ from_audacity_enter
    \/ from_audacity_line
    \/ from_audacity_return
    \/ to_audacity
    \/ write_audacity_enter
    \/ write_audacity_line
    \/ write_audacity_return
    \/ to_rttm_enter
    \/ to_rttm_line
    \/ to_rttm_return

Spec == Init /\ [][Next]_vars

----------------------------------------------------------------------------
(* The vocabulary of the statements checked below.  These definitions say   *)
(* what the statements mean; none of them is used by the actions above.     *)

RECURSIVE WsFrom(_, _, _, _)
WsFrom(s, i, cur, acc) ==
    IF i > Len(s) THEN (IF cur = <<>> THEN acc ELSE Append(acc, cur))
    ELSE IF s[i] \in Whitespace
         THEN WsFrom(s, i + 1, <<>>, IF cur = <<>> THEN acc ELSE Append(acc, cur))
         ELSE WsFrom(s, i + 1, Append(cur, s[i]), acc)

\* the whitespace-separated tokens of a line: runs of blanks separate, none is a token
WsTokens(line) == WsFrom(line, 1, <<>>, <<>>)

\* a line without its line terminator
StripTerminator(line) ==
    IF line # <<>> /\ line[Len(line)] = "\n" THEN SubSeq(line, 1, Len(line) - 1) ELSE line

\* the tab-separated fields of a line
TabFields(line) == Split(StripTerminator(line), "\t")

\* tok is a number as the ".3f" format writes it: an optional minus, an integer
\* part without superfluous zeros, a point and exactly Precision digits
Canonical3(tok) ==
    LET neg  == tok # <<>> /\ tok[1] = "-"
        body == IF neg THEN Tail(tok) ELSE tok
        n    == Len(body)
    IN  /\ n >= Precision + 2
        /\ body[n - Precision] = "."
        /\ \A j \in 1..n : j # n - Precision => body[j] \in Digit
        /\ (n - Precision - 1 = 1 \/ body[1] # "0")
        /\ ~(neg /\ \A j \in 1..n : j # n - Precision => body[j] = "0")

\* line is "SPEAKER <u> 1 <start> <duration> <NA> <NA> <label> <NA>\n" with
\* start and duration written to three decimals and single spaces between tokens
IsWrittenRttmLine(line, u) ==
    LET t == WsTokens(line)
    IN  /\ Len(t) = 9
        /\ t[1] = <<"S", "P", "E", "A", "K", "E", "R">> /\ t[2] = u /\ t[3] = <<"1">>
        /\ Canonical3(t[4]) /\ Canonical3(t[5])
        /\ t[6] = <<"<", "N", "A", ">">> /\ t[7] = <<"<", "N", "A", ">">> /\ t[9] = <<"<", "N", "A", ">">>
        /\ line = t[1] \o <<" ">> \o t[2] \o <<" ">> \o t[3] \o <<" ">> \o t[4] \o <<" ">>
                    \o t[5] \o <<" ">> \o t[6] \o <<" ">> \o t[7] \o <<" ">> \o t[8]
                    \o <<" ">> \o t[9] \o <<"\n">>

\* line is "<start>\t<end>\t<label>\n" with start and end written to three decimals
IsFormattedMarkerLine(line) ==
    /\ line # <<>> /\ line[Len(line)] = "\n"
    /\ Len(TabFields(line)) = 3
    /\ Canonical3(TabFields(line)[1]) /\ Canonical3(TabFields(line)[2])

\* line has at least 8 whitespace-separated tokens, token[2] an integer and
\* token[3], token[4] numbers (positions counted from 0)
WsWellFormed(line) ==
    LET t == WsTokens(line)
    IN  Len(t) >= 8 /\ PyInt(t[3]).ok /\ PyFloat(t[4]).ok /\ PyFloat(t[5]).ok

\* the record the whitespace-separated tokens of line describe
WsRecord(line) ==
    LET t == WsTokens(line)
    IN  Record(Segment(PyFloat(t[4]).v, PyFloat(t[4]).v + PyFloat(t[5]).v),
               PyInt(t[3]).v, t[8])

\* line has exactly three tab-separated fields, the first two numbers
MarkerWellFormed(line) ==
    LET f == TabFields(line)
    IN  Len(f) = 3 /\ PyFloat(f[1]).ok /\ PyFloat(f[2]).ok

\* the records of the constructed Annotation
Records == annotation.val.segment_list

\* the duration field of a line to_rttm wrote (the uris explored hold no space)
WrittenDuration(line) == Split(line, " ")[5]

\* the k-th input respects start <= end: the caller's segment does, the RTTM
\* duration token read by from_rttm is not negative, the marker line's end
\* field is not below its start field
InputOrdered(k) ==
    CASE kind = "records"  -> source[k].segment.start <= source[k].segment.end
      [] kind = "rttm"     -> PyFloat(Split(RStrip(source[k]), " ")[5]).v >= 0
      [] kind = "audacity" ->
            LET f == Split(RStrip(source[k]), "\t")
            IN  PyFloat(f[1]).v <= PyFloat(f[2]).v

----------------------------------------------------------------------------
(* The statements *)

\* C1, as stated: every RTTM line of the written layout with a 3-decimal start
\* and duration, parsed by from_rttm and written by to_rttm under the same uri,
\* comes back identical.
C1_RttmRoundTrip ==
    (kind = "rttm" /\ uri.set /\ "to_rttm" \in called) =>
        \A k \in 1..Len(source) :
            IsWrittenRttmLine(source[k], uri.val) =>
                k <= Len(rttm_sink) /\ rttm_sink[k] = source[k]

\* C1, amended: the round trip gives back the identical line when moreover the
\* duration is not negative; and the scenario line parses to
\* (start 10.000, end 12.500, track 1, label spk1).
C1_RttmRoundTripNonNegative ==
    /\ (kind = "rttm" /\ uri.set /\ "to_rttm" \in called) =>
          \A k \in 1..Len(source) :
              (/\ IsWrittenRttmLine(source[k], uri.val)
               /\ WsTokens(source[k])[5][1] # "-") =>
                  k <= Len(rttm_sink) /\ rttm_sink[k] = source[k]
    /\ (kind = "rttm" /\ annotation.set) =>
          \A k \in 1..Len(source) :
              source[k] = RttmScenario =>
                  k <= Len(Records)
                  /\ Records[k] = Record(Segment(10000, 12500), 1, <<"s", "p", "k", "1">>)

C1_Witness ==
    /\ kind = "rttm" /\ uri = Some(<<"f", "i", "l", "e", "1">>) /\ "to_rttm" \in called
    /\ source = <<RttmScenario, RttmZeroDuration>>
    /\ rttm_sink = source

\* C2, as stated: a marker file whose lines are "<start>\t<end>\t<label>\n"
\* with 3-decimal start and end comes back byte-identical from from_audacity
\* followed by to_audacity, every record having track 1, whatever the labels.
C2_MarkerRoundTrip ==
    (/\ kind = "audacity" /\ "to_audacity" \in called
     /\ \A k \in 1..Len(source) : IsFormattedMarkerLine(source[k])) =>
        /\ audacity_text.val = Concat(source)
        /\ \A k \in 1..Len(Records) : Records[k].track = 1

\* C3: what write_audacity wrote to an empty sink, concatenated, is the string
\* to_audacity returns: one line "<start:.3f>\t<end:.3f>\t<label>\n" per
\* record, without the track.
C3_WriteEqualsReturn ==
    ({"write_audacity", "to_audacity"} \subseteq called) =>
        /\ Concat(audacity_sink) = audacity_text.val
        /\ Len(audacity_sink) = Len(Records)
        /\ \A k \in 1..Len(audacity_sink) :
              /\ audacity_sink[k][Len(audacity_sink[k])] = "\n"
              /\ TabFields(audacity_sink[k]) =
                    <<Fmt3(Records[k].segment.start), Fmt3(Records[k].segment.end),
                      Records[k].label>>

C3_Witness ==
    /\ {"write_audacity", "to_audacity"} \subseteq called
    /\ Len(Records) = 2
    /\ Records[1].track = 2
    /\ Len(audacity_sink) = 2
    /\ audacity_text.val = audacity_sink[1] \o audacity_sink[2]

\* C4: N inputs give N records in input order, and every writer emits N lines,
\* the k-th from the k-th record; nothing is reordered, dropped or duplicated,
\* and no input gives no output.
C4_OrderPreserved ==
    /\ annotation.set =>
          /\ Len(Records) = Len(source)
          /\ \A k \in 1..Len(Records) :
                Records[k] =
                    CASE kind = "records"  -> source[k]
                      [] kind = "rttm"     -> RttmRecord(Split(RStrip(source[k]), " "))
                      [] kind = "audacity" -> AudacityRecord(Split(RStrip(source[k]), "\t"))
    /\ pc \in {"from_rttm", "from_audacity"} => Len(segment_list) = line_no - 1
    /\ pc = "to_rttm" => Len(rttm_sink) = line_no - 1
    /\ pc = "write_audacity" => Len(audacity_sink) = line_no - 1
    /\ "to_rttm" \in called => Len(rttm_sink) = Len(source)
    /\ "write_audacity" \in called => Len(audacity_sink) = Len(source)
    /\ \A k \in 1..Len(rttm_sink) :
          rttm_sink[k] = RttmOutLine(Records[k], annotation.val.uri)
    /\ \A k \in 1..Len(audacity_sink) :
          audacity_sink[k] = AudacityOutLine(Records[k])
    /\ "to_audacity" \in called =>
          audacity_text.val = Concat([k \in 1..Len(source) |-> AudacityOutLine(Records[k])])
    /\ (Len(source) = 0 /\ called = {"to_rttm", "write_audacity", "to_audacity"}) =>
          rttm_sink = <<>> /\ audacity_sink = <<>> /\ audacity_text.val = <<>>

C4_Witness ==
    /\ kind = "audacity"
    /\ source = <<MarkerZeroDuration, MarkerScenario>>
    /\ called = {"to_rttm", "write_audacity", "to_audacity"}
    /\ audacity_sink = source
    /\ Len(rttm_sink) = 2 /\ rttm_sink[1] # rttm_sink[2]

\* C5, as stated: every line with at least 8 whitespace-separated tokens,
\* whatever the whitespace between them, whose token[2] is an integer and
\* token[3], token[4] are numbers, makes from_rttm append the record
\* (token[3], token[3] + token[4], token[2], token[7]) and not raise.
C5_WhitespaceTokens ==
    kind = "rttm" =>
        /\ \A k \in 1..Len(segment_list) :
              WsWellFormed(source[k]) => segment_list[k] = WsRecord(source[k])
        /\ pc = "raised" => ~WsWellFormed(source[line_no])

\* C6, as stated: from_rttm returns no Annotation when any line has fewer than
\* 8 whitespace-separated tokens or a token[2], token[3] or token[4] that is
\* not numeric.
C6_FromRttmFailsAsAWhole ==
    (kind = "rttm" /\ \E k \in 1..Len(source) : ~WsWellFormed(source[k])) =>
        ~annotation.set

\* C7, as stated: from_audacity returns no Annotation when any line does not
\* split into exactly 3 tab-separated fields or has a start or end that is no
\* number.
C7_FromAudacityFailsAsAWhole ==
    (kind = "audacity" /\ \E k \in 1..Len(source) : ~MarkerWellFormed(source[k])) =>
        ~annotation.set

\* C8: every line to_rttm writes is
\* "SPEAKER <uri> 1 <start:.3f> <duration:.3f> <NA> <NA> <label> <NA>\n", the
\* channel being 1 whatever the record's track and the uri being the text
\* None when no uri was given.
C8_RttmLineLayout ==
    \A k \in 1..Len(rttm_sink) :
        /\ rttm_sink[k] =
              <<"S", "P", "E", "A", "K", "E", "R", " ">> \o (IF uri.set THEN uri.val ELSE <<"N", "o", "n", "e">>) \o <<" ", "1", " ">>
                  \o Fmt3(Records[k].segment.start) \o <<" ">>
                  \o Fmt3(SegmentDuration(Records[k].segment))
                  \o <<" ", "<", "N", "A", ">", " ", "<", "N", "A", ">", " ">> \o Records[k].label \o <<" ", "<", "N", "A", ">", "\n">>
        /\ Split(rttm_sink[k], " ")[3] = <<"1">>
        /\ (kind = "rttm" /\ source[k] = RttmTrackTwo) =>
              /\ Records[k].track = 2
              /\ rttm_sink[k] =
                    IF uri.set
                    THEN <<"S", "P", "E", "A", "K", "E", "R", " ", "f", "i", "l", "e", "1", " ", "1", " ", "-", "1", ".", "0", "0", "0", " ", "0", ".", "5", "0", "0", " ", "<", "N", "A", ">", " ", "<", "N", "A", ">", " ", "s", "p", "k", "1", " ", "<", "N", "A", ">", "\n">>
                    ELSE <<"S", "P", "E", "A", "K", "E", "R", " ", "N", "o", "n", "e", " ", "1", " ", "-", "1", ".", "0", "0", "0", " ", "0", ".", "5", "0", "0", " ", "<", "N", "A", ">", " ", "<", "N", "A", ">", " ", "s", "p", "k", "1", " ", "<", "N", "A", ">", "\n">>

C8_Witness ==
    /\ kind = "rttm" /\ source = <<RttmTrackTwo>> /\ ~uri.set
    /\ "to_rttm" \in called
    /\ Records[1].track = 2
    /\ rttm_sink = <<<<"S", "P", "E", "A", "K", "E", "R", " ", "N", "o", "n", "e", " ", "1", " ", "-", "1", ".", "0", "0", "0", " ", "0", ".", "5", "0", "0", " ", "<", "N", "A", ">", " ", "<", "N", "A", ">", " ", "s", "p", "k", "1", " ", "<", "N", "A", ">", "\n">>>>

\* C9, as stated: for every record, however start and end compare, the
\* duration field to_rttm writes is end - start to three decimals.
C9_DurationIsEndMinusStart ==
    \A k \in 1..Len(rttm_sink) :
        WrittenDuration(rttm_sink[k]) =
            Fmt3(Records[k].segment.end - Records[k].segment.start)

\* C9, amended: the duration field is end - start to three decimals for every
\* record with start <= end, 0.000 when start = end, and 0.000 as well when
\* end < start; to_rttm raises nothing.
C9_DurationClamped ==
    /\ \A k \in 1..Len(rttm_sink) :
          LET seg == Records[k].segment
              d   == WrittenDuration(rttm_sink[k])
          IN  /\ seg.start <= seg.end => d = Fmt3(seg.end - seg.start)
              /\ seg.end <= seg.start => d = <<"0", ".", "0", "0", "0">>
    /\ pc = "to_rttm" => raised = "none"
    /\ raised # "none" => rttm_sink = <<>>

C9_Witness ==
    /\ "to_rttm" \in called
    /\ \E k \in 1..Len(rttm_sink) :
          /\ Records[k].segment.start = Records[k].segment.end
          /\ WrittenDuration(rttm_sink[k]) = <<"0", ".", "0", "0", "0">>
    /\ \E k \in 1..Len(rttm_sink) :
          /\ Records[k].segment.start > Records[k].segment.end
          /\ WrittenDuration(rttm_sink[k]) = <<"0", ".", "0", "0", "0">>

\* C10, as stated: in every Annotation the constructors build, every record's
\* segment has start <= end, negative RTTM durations and marker lines with
\* end < start included.
C10_StartNotAfterEnd ==
    annotation.set =>
        \A k \in 1..Len(Records) : Records[k].segment.start <= Records[k].segment.end

\* C10, amended: a record's segment has start <= end exactly when its input
\* has: the constructors validate nothing, so a negative RTTM duration, a
\* marker line with end < start or such a caller's record gives start > end.
C10_OrderedIffInputOrdered ==
    annotation.set =>
        /\ Len(Records) = Len(source)
        /\ \A k \in 1..Len(Records) :
              (Records[k].segment.start <= Records[k].segment.end) <=> InputOrdered(k)

C10_Witness ==
    /\ kind = "rttm" /\ annotation.set
    /\ source = <<RttmScenario, RttmNegativeDuration>>
    /\ Records[1].segment.start <= Records[1].segment.end
    /\ Records[2].segment.start > Records[2].segment.end

====
